---- MODULE Spec2Model ----
(***************************************************************************)
(* Device identity and content synchronisation of the media content        *)
(* distribution system: accounts with a credential, devices with a status, *)
(* a content catalog, and the request handlers that read and write them.   *)
(*                                                                         *)
(* The repository holds two applications, each with its own database:      *)
(*  - the current one (src/backend): the tables of backend/models.py       *)
(*    (users, devices, files) and the blobs under uploads/videos, written  *)
(*    by the handlers of backend/main.py and backend/web_routes.py;        *)
(*  - the first version (src/main.py): the tables of src/models.py, held   *)
(*    in the variable v1.  Its devices have no device_id string and its    *)
(*    files are known by their file name.                                  *)
(* Time is counted in minutes.  Tokens of the current application are      *)
(* numbers: token_urlsafe() never repeats a value, so each call takes the  *)
(* next unused number.  Content ids and file names are short strings.      *)
(* Device.description, File.description, User.full_name and               *)
(* User.hashed_password play no part in any handler's decision and are     *)
(* left out.  None in a user_id column is written 0.                       *)
(* Routes that are not modelled write nothing: the listings and pages,     *)
(* login and logout, and stream_video.                                     *)
(***************************************************************************)
EXTENDS Integers, Sequences, FiniteSets, TLC

\* ---------------------------------------------------------------- bounds
MaxTime == 6
MaxRotations == 2
MaxRowId == 2
MaxReported == 2
MaxPending == 2
MaxFileRowId == 4
MaxV1FileRowId == 2

\* -------------------------------------------------------------- constants
NoToken == 0
NoTime == -1
GRACE_PERIOD == 5

NULL == "NULL"
Users == {1, 2}
DeviceIds == {"d1", "d2"}
ContentIds == {"a", "b", "c"}
UploadIds == {"x"}
Statuses == {"unverified", "active", "blocked"}
Actions == {"activate", "block", "delete"}
DeviceRoles == {"admin", "operator"}
FileRoles == {"admin", "operator", "video_uploader"}
\* role: str = Form(...): the three roles the handlers know and one they do not.
Roles == {"admin", "operator", "video_uploader", "guest"}
Usernames == {"admin", "user"}
V1Tokens == {"ADMIN_TOKEN", "NO_TOKEN"}

\* A token the generator never hands out, and the last one it may hand out.
UnissuedToken == MaxRotations + 3
LastToken == MaxRotations + 2

\* ---------------------------------------------------------------- state
\* users, devices, files: the tables of the current application; blobs: the
\* paths present under uploads/videos; v1: the tables of the first version;
\* now: the clock; nextToken: the next value of the token generator;
\* rotations: per account id, the cookies its rotation requests presented,
\* the token the last of them generated and its time (a record of the run,
\* read by no handler); resp: the last request and its answer;
\* held: the token the player behind device d1 keeps, the answer to its
\* last poll and the time of that poll; pending: the requests that have read the store and not yet
\* committed their write, each with what it read and when.
VARIABLES users, devices, files, blobs, v1, now, nextToken, rotations, resp,
          held, pending

vars == <<users, devices, files, blobs, v1, now, nextToken, rotations, resp,
          held, pending>>

\* ---------------------------------------------------------------- tables
\* class User: username, token, old_token (nullable), token_changed_at
\* (nullable), role
User(username, token, old_token, token_changed_at, role) ==
    [username |-> username, token |-> token, old_token |-> old_token,
     token_changed_at |-> token_changed_at, role |-> role]

\* class Device: id (primary key), device_id, status, user_id
Device(id, device_id, status, user_id) ==
    [id |-> id, device_id |-> device_id, status |-> status, user_id |-> user_id]

\* class File: id (primary key), file_id, url, user_id
File(id, file_id, url, user_id) ==
    [id |-> id, file_id |-> file_id, url |-> url, user_id |-> user_id]

\* The first version's class User: id, username, token
V1User(id, username, token) == [id |-> id, username |-> username, token |-> token]

\* The first version's class Device: id (primary key), status, user_id
V1Device(id, status, user_id) == [id |-> id, status |-> status, user_id |-> user_id]

\* The first version's class File: id (primary key), filename, user_id
V1File(id, filename, user_id) == [id |-> id, filename |-> filename, user_id |-> user_id]

\* The answer of the last request, with the arguments it was called with.
Resp(op, token, device, pk, message) ==
    [op |-> op, token |-> token, device |-> device, pk |-> pk,
     message |-> message, fresh |-> NoToken, actual |-> FALSE,
     items |-> {}, toFetch |-> {}, toDelete |-> {},
     file |-> NULL, removeFailed |-> FALSE, videos |-> <<>>, stale |-> FALSE]

NoResp == Resp("none", NoToken, NULL, 0, "")

\* A request slot with no request in it.
Idle ==
    [op |-> "idle", token |-> NoToken, device |-> NULL, user |-> 0,
     read |-> NoResp, at |-> NoTime]

\* Tokens a caller can present, or choose for an account it creates: every
\* token generated so far and one the generator never hands out.
Presentable == (1..(nextToken - 1)) \cup {UnissuedToken}

\* set(data.videos): the elements of the reported list
ToSet(s) == {s[i] : i \in DOMAIN s}

ReportedLists == UNION {[1..n -> ContentIds] : n \in 0..MaxReported}

\* Query.first() on a query with no ORDER BY: the row with the lowest primary key.
First(S) == CHOOSE x \in S : \A y \in S : x <= y

\* The lowest free request slot; 0 when all are taken.
FreeSlot ==
    LET free == {i \in 1..MaxPending : pending[i] = Idle}
    IN  IF free = {} THEN 0 ELSE First(free)

\* One more than the highest primary key among rows.
NextId(rows) ==
    IF rows = {} THEN 1
    ELSE (CHOOSE i \in {r.id : r \in rows} : \A r \in rows : r.id <= i) + 1

\* The account whose current or archived token is the token; 0 when none.
AccountOf(token) ==
    LET found == {u \in DOMAIN users : users[u].token = token \/ users[u].old_token = token}
    IN  IF found = {} THEN 0 ELSE First(found)

\* db.query(User).filter(User.token == token).first(); 0 stands for None
UserByToken(token) ==
    LET found == {u \in DOMAIN users : users[u].token = token}
    IN  IF found = {} THEN 0 ELSE First(found)

\* db.query(Device).filter(Device.device_id == id, Device.user_id == user.id).first()
DeviceOf(device_id, u) ==
    LET found == {d \in devices : d.device_id = device_id /\ d.user_id = u}
    IN  IF found = {} THEN {} ELSE {CHOOSE d \in found : \A e \in found : d.id <= e.id}

\* The primary key of a new Device row: one more than the highest in the table.
NewRowId == NextId(devices)

\* The primary key of a new User row.
NewUserId == NextId({[id |-> u] : u \in DOMAIN users})

\* require_role(user, allowed_roles), for a user that exists
require_role(u, allowed_roles) == users[u].role \in allowed_roles

\* ------------------------------------------------------ credential rotation
\* refresh_user_token with the rotation committed, the time stamp left out.
refresh_user_token_noStamp(cookie) ==
    LET u == UserByToken(cookie)
        R(m) == Resp("refresh_user_token", cookie, NULL, 0, m)
    IN  IF u = 0
        THEN [resp |-> R("login"), users |-> users]
        ELSE [resp |-> [R("dashboard") EXCEPT !.fresh = nextToken],
              users |-> [users EXCEPT ![u] =
                            User(users[u].username, nextToken, users[u].token,
                                 users[u].token_changed_at, users[u].role)]]

\* refresh_user_token with the new token committed and nothing archived.
refresh_user_token_noArchive(cookie) ==
    LET u == UserByToken(cookie)
        R(m) == Resp("refresh_user_token", cookie, NULL, 0, m)
    IN  IF u = 0
        THEN [resp |-> R("login"), users |-> users]
        ELSE [resp |-> [R("dashboard") EXCEPT !.fresh = nextToken],
              users |-> [users EXCEPT ![u].token = nextToken]]

\* refresh_user_token: the user of the session cookie gets the new token, the
\* archived one and the time stamp assigned in the session; then the bulk
\* update of Device.token_synced, a column the Device class does not have,
\* raises, and the session is closed without a commit: the table is left as
\* it was and no cookie is set.
refresh_user_token(cookie) ==
    LET u == UserByToken(cookie)
        R(m) == Resp("refresh_user_token", cookie, NULL, 0, m)
    IN  IF u = 0
        THEN [resp |-> R("login"), users |-> users]
        ELSE [resp |-> R("CompileError"), users |-> users]

\* A rotation request; token_urlsafe() uses up a value whenever it is reached.
RefreshToken ==
    \E cookie \in Presentable :
        LET r == refresh_user_token(cookie)
            u == UserByToken(cookie)
        IN  /\ u # 0 => /\ nextToken <= LastToken
                        /\ Len(rotations[u].toks) < MaxRotations
            /\ users' = r.users
            /\ resp' = r.resp
            /\ nextToken' = IF u = 0 THEN nextToken ELSE nextToken + 1
            /\ rotations' = IF u = 0 THEN rotations
                            ELSE [rotations EXCEPT ![u] =
                                     [toks |-> Append(@.toks, cookie),
                                      new |-> nextToken, at |-> now]]
            /\ UNCHANGED <<devices, files, blobs, v1, now, held, pending>>

\* ---------------------------------------------------------------- accounts
\* username = Column(String, unique=True): the commit of a row is refused
\* when another row of the table holds the same username.
UsernameTaken(username, except) ==
    \E x \in DOMAIN users \ {except} : users[x].username = username

\* token = Column(String, unique=True)
TokenTaken(token) == \E x \in DOMAIN users : users[x].token = token

\* The users table with one more row.
WithUser(row) ==
    [x \in DOMAIN users \cup {NewUserId} |-> IF x = NewUserId THEN row ELSE users[x]]

\* db.delete(user) for the rows of a table that refer to the user: the
\* relationships devices and files carry no cascade, so the session sets the
\* user_id of the user's devices and files to None and keeps the rows.
WithoutUser(rows, user_id) ==
    {IF r.user_id = user_id THEN [r EXCEPT !.user_id = 0] ELSE r : r \in rows}

\* db.delete(user); db.commit(): the row of the account goes, its devices and
\* files stay without an account.
DeleteAccount(user_id) ==
    [users |-> [x \in DOMAIN users \ {user_id} |-> users[x]],
     devices |-> WithoutUser(devices, user_id),
     files |-> WithoutUser(files, user_id)]

\* The tables as they are.
SameTables == [users |-> users, devices |-> devices, files |-> files]

\* The rotation requests on record after a request: an account that was
\* deleted leaves none behind.
RotationsOf(after) ==
    [u \in Users |-> IF u \in DOMAIN users /\ u \notin DOMAIN after
                     THEN [toks |-> <<>>, new |-> NoToken, at |-> NoTime]
                     ELSE rotations[u]]

\* admin_create_user: an admin's session creates an account with the given
\* username and role and a new token.  The token is generated before the
\* commit, which fails when the username is taken.
admin_create_user(cookie, username, role) ==
    LET u == UserByToken(cookie)
        R(m) == Resp("admin_create_user", NoToken, NULL, 0, m)
    IN  IF u = 0 \/ ~require_role(u, {"admin"})
        THEN [resp |-> R("forbidden"), users |-> users]
        ELSE IF UsernameTaken(username, 0)
        THEN [resp |-> [R("IntegrityError") EXCEPT !.fresh = nextToken],
              users |-> users]
        ELSE [resp |-> [R("users") EXCEPT !.pk = NewUserId, !.fresh = nextToken],
              users |-> WithUser(User(username, nextToken, NoToken, NoTime, role))]

\* token_urlsafe() uses up a value whenever it is reached.
AdminCreateUser ==
    \E cookie \in Presentable, username \in Usernames, role \in Roles :
        LET r == admin_create_user(cookie, username, role)
        IN  /\ r.resp.message # "forbidden" => nextToken <= LastToken
            /\ r.users # users => NewUserId \in Users
            /\ users' = r.users
            /\ resp' = r.resp
            /\ nextToken' = IF r.resp.message = "forbidden"
                            THEN nextToken ELSE nextToken + 1
            /\ UNCHANGED <<devices, files, blobs, v1, now, rotations, held, pending>>

\* create_user of the admin API: an account with the username and the token
\* the request names and the default role; both columns are unique.
create_user(username, token) ==
    LET R(m) == Resp("create_user", NoToken, NULL, 0, m)
    IN  IF UsernameTaken(username, 0) \/ TokenTaken(token)
        THEN [resp |-> R("IntegrityError"), users |-> users]
        ELSE [resp |-> [R("created") EXCEPT !.pk = NewUserId],
              users |-> WithUser(User(username, token, NoToken, NoTime,
                                      "video_uploader"))]

CreateUser ==
    \E username \in Usernames, token \in Presentable :
        LET r == create_user(username, token)
        IN  /\ r.users # users => NewUserId \in Users
            /\ users' = r.users
            /\ resp' = r.resp
            /\ UNCHANGED <<devices, files, blobs, v1, now, nextToken, rotations,
                           held, pending>>

\* delete_user of the admin API: any account by its primary key.
delete_user(user_id) ==
    LET R(m) == Resp("delete_user", NoToken, NULL, user_id, m)
    IN  IF user_id \notin DOMAIN users
        THEN [resp |-> R("User not found"), tables |-> SameTables]
        ELSE [resp |-> R("deleted"), tables |-> DeleteAccount(user_id)]

DeleteUser ==
    \E user_id \in Users :
        LET r == delete_user(user_id)
        IN  /\ users' = r.tables.users
            /\ devices' = r.tables.devices
            /\ files' = r.tables.files
            /\ rotations' = RotationsOf(r.tables.users)
            /\ resp' = r.resp
            /\ UNCHANGED <<blobs, v1, now, nextToken, held, pending>>

\* admin_delete_user: an admin's session deletes any account but its own.
admin_delete_user(cookie, user_id) ==
    LET u == UserByToken(cookie)
        R(m) == Resp("admin_delete_user", NoToken, NULL, user_id, m)
    IN  IF u = 0 \/ ~require_role(u, {"admin"})
        THEN [resp |-> R("forbidden"), tables |-> SameTables]
        ELSE IF user_id \in DOMAIN users /\ user_id # u
        THEN [resp |-> R("users"), tables |-> DeleteAccount(user_id)]
        ELSE [resp |-> R("users"), tables |-> SameTables]

AdminDeleteUser ==
    \E cookie \in Presentable, user_id \in Users :
        LET r == admin_delete_user(cookie, user_id)
        IN  /\ users' = r.tables.users
            /\ devices' = r.tables.devices
            /\ files' = r.tables.files
            /\ rotations' = RotationsOf(r.tables.users)
            /\ resp' = r.resp
            /\ UNCHANGED <<blobs, v1, now, nextToken, held, pending>>

\* admin_edit_user: an admin's session sets the username and the role of any
\* account.  The password is assigned before the target is checked, so a
\* password for an account that does not exist raises; the commit fails
\* when another account holds the username.
admin_edit_user(cookie, user_id, password, username, role) ==
    LET u == UserByToken(cookie)
        R(m) == Resp("admin_edit_user", NoToken, NULL, user_id, m)
    IN  IF u = 0 \/ ~require_role(u, {"admin"})
        THEN [resp |-> R("forbidden"), users |-> users]
        ELSE IF user_id \notin DOMAIN users
        THEN [resp |-> R(IF password THEN "AttributeError" ELSE "User not found"),
              users |-> users]
        ELSE IF UsernameTaken(username, user_id)
        THEN [resp |-> R("IntegrityError"), users |-> users]
        ELSE [resp |-> R("users"),
              users |-> [users EXCEPT ![user_id].username = username,
                                      ![user_id].role = role]]

AdminEditUser ==
    \E cookie \in Presentable, user_id \in Users, password \in BOOLEAN,
       username \in Usernames, role \in Roles :
        LET r == admin_edit_user(cookie, user_id, password, username, role)
        IN  /\ users' = r.users
            /\ resp' = r.resp
            /\ UNCHANGED <<devices, files, blobs, v1, now, nextToken, rotations,
                           held, pending>>

\* ------------------------------------------------------------ authenticate
\* The credential check of the device protocol (sync-credential).
authenticate(token, device_id) ==
    LET found == {u \in DOMAIN users : users[u].token = token
                                       \/ (users[u].old_token # NoToken
                                           /\ users[u].old_token = token)}
        u == First(found)
        dev == DeviceOf(device_id, u)
        R(m) == Resp("authenticate", token, device_id, 0, m)
    IN  IF found = {}
        THEN [resp |-> R("InvalidCredential"), users |-> users]
        ELSE IF dev = {}
        THEN [resp |-> R("UnknownDevice"), users |-> users]
        ELSE IF (CHOOSE d \in dev : TRUE).status # "active"
        THEN [resp |-> R("DeviceNotActive"), users |-> users]
        ELSE IF users[u].old_token = token /\ users[u].token # token
        THEN IF users[u].token_changed_at = NoTime
             THEN [resp |-> R("RotationStateInconsistent"), users |-> users]
             ELSE IF now - users[u].token_changed_at > GRACE_PERIOD
             THEN [resp |-> R("GracePeriodExpired"),
                   users |-> [users EXCEPT ![u].old_token = NoToken]]
             ELSE [resp |-> [R("superseded") EXCEPT !.fresh = users[u].token],
                   users |-> users]
        ELSE [resp |-> R("current"), users |-> users]

Authenticate ==
    \E token \in Presentable, device_id \in DeviceIds :
        LET r == authenticate(token, device_id)
        IN  /\ users' = r.users
            /\ resp' = r.resp
            /\ UNCHANGED <<devices, files, blobs, v1, now, nextToken, rotations,
                           held, pending>>

\* authenticate up to its write: the request has read the account and the
\* device and knows its answer.
AuthBegin ==
    \E token \in Presentable, device_id \in DeviceIds :
        LET r == authenticate(token, device_id)
        IN  /\ FreeSlot # 0
            /\ pending' = [pending EXCEPT ![FreeSlot] =
                               [op |-> "authenticate", token |-> token,
                                device |-> device_id,
                                user |-> AccountOf(token),
                                read |-> r.resp, at |-> now]]
            /\ UNCHANGED <<users, devices, files, blobs, v1, now, nextToken,
                           rotations, resp, held>>

\* The purge of authenticate as a write of its own, guarded by reading the
\* row again: the archived token of account u is cleared if the row still
\* archives the token the request presented and its time stamp is still
\* more than GRACE_PERIOD old; otherwise nothing is written.
purge(u, token) ==
    IF /\ u \in DOMAIN users
       /\ users[u].old_token = token
       /\ users[u].token_changed_at # NoTime
       /\ now - users[u].token_changed_at > GRACE_PERIOD
    THEN [users EXCEPT ![u].old_token = NoToken]
    ELSE users

\* The end of a credential check: the purge is written if the read found the
\* grace period expired, and the answer is given.
\* stale: the row no longer holds what the request read.
AuthCommit ==
    \E i \in 1..MaxPending :
        LET p == pending[i]
        IN  /\ p.op = "authenticate"
            /\ pending' = [pending EXCEPT ![i] = Idle]
            /\ users' = IF p.read.message = "GracePeriodExpired"
                        THEN purge(p.user, p.token) ELSE users
            /\ resp' = [p.read EXCEPT
                           !.stale = (authenticate(p.token, p.device).resp # p.read)]
            /\ UNCHANGED <<devices, files, blobs, v1, now, nextToken, rotations, held>>

\* The player behind device d1 polls with the token it holds and adopts the
\* token handed out for a superseded one.
Poll ==
    LET r == authenticate(held.tok, "d1")
    IN  /\ users' = r.users
        /\ resp' = r.resp
        /\ held' = [tok |-> IF r.resp.message = "superseded"
                            THEN r.resp.fresh ELSE held.tok,
                    last |-> r.resp.message, at |-> now]
        /\ UNCHANGED <<devices, files, blobs, v1, now, nextToken, rotations, pending>>

\* A rotation request while account 1 has made none.
RotateOnce ==
    /\ rotations[1].toks = <<>>
    /\ RefreshToken

\* ------------------------------------------------- device-facing handlers
\* DeviceGate letting through exactly the devices that are not active.
DeviceGate_inverted(token, device_id) ==
    LET u == UserByToken(token)
        dev == DeviceOf(device_id, u)
    IN  IF u = 0 THEN "Invalid token"
        ELSE IF dev = {} THEN "Unknown device"
        ELSE IF (CHOOSE d \in dev : TRUE).status = "active" THEN "Device not active"
        ELSE ""

\* The head of check_videos (download_file repeats it line for line): the
\* account by its current token, the device by (device_id, account), the
\* status check.  "" when the request may proceed, else the refusal.
DeviceGate(token, device_id) ==
    LET u == UserByToken(token)
        dev == DeviceOf(device_id, u)
    IN  IF u = 0 THEN "Invalid token"
        ELSE IF dev = {} THEN "Unknown device"
        ELSE IF (CHOOSE d \in dev : TRUE).status # "active" THEN "Device not active"
        ELSE ""

\* check_videos that compares the number of reported ids with the size of
\* the catalog instead of comparing the sets.
check_videos_byLength(token, device_id, videos) ==
    LET gate == DeviceGate(token, device_id)
        u == UserByToken(token)
        server_files == {f \in files : f.user_id = u}
        R(m) == [Resp("check_videos", token, device_id, 0, m) EXCEPT !.videos = videos]
    IN  IF gate # "" THEN R(gate)
        ELSE IF Cardinality(server_files) = Len(videos)
        THEN [R("success") EXCEPT !.actual = TRUE]
        ELSE [R("success") EXCEPT
                 !.items = {[id |-> f.file_id, url |-> f.url] : f \in server_files}]

\* check_videos that lists only the files the device did not report.
check_videos_missingOnly(token, device_id, videos) ==
    LET gate == DeviceGate(token, device_id)
        u == UserByToken(token)
        server_files == {f \in files : f.user_id = u}
        server_file_ids == {f.file_id : f \in server_files}
        client_file_ids == ToSet(videos)
        R(m) == [Resp("check_videos", token, device_id, 0, m) EXCEPT !.videos = videos]
    IN  IF gate # "" THEN R(gate)
        ELSE IF server_file_ids = client_file_ids
        THEN [R("success") EXCEPT !.actual = TRUE]
        ELSE [R("success") EXCEPT
                 !.items = {[id |-> f.file_id, url |-> f.url] :
                               f \in {g \in server_files : g.file_id \notin client_file_ids}}]

\* check_videos: the gate, then the catalog of the account against the
\* reported list; the whole catalog is returned when they differ.
check_videos(token, device_id, videos) ==
    LET gate == DeviceGate(token, device_id)
        u == UserByToken(token)
        server_files == {f \in files : f.user_id = u}
        server_file_ids == {f.file_id : f \in server_files}
        client_file_ids == ToSet(videos)
        R(m) == [Resp("check_videos", token, device_id, 0, m) EXCEPT !.videos = videos]
    IN  IF gate # "" THEN R(gate)
        ELSE IF server_file_ids = client_file_ids
        THEN [R("success") EXCEPT !.actual = TRUE]
        ELSE [R("success") EXCEPT
                 !.items = {[id |-> f.file_id, url |-> f.url] : f \in server_files}]

\* check_videos that enrols a device it does not know.
CheckVideos_enrolling ==
    \E token \in Presentable, device_id \in DeviceIds, videos \in ReportedLists :
        LET r == check_videos(token, device_id, videos)
            enrol == r.message = "Unknown device" /\ NewRowId <= MaxRowId
        IN  /\ resp' = r
            /\ devices' = IF enrol
                          THEN devices \cup {Device(NewRowId, device_id, "unverified",
                                                    UserByToken(token))}
                          ELSE devices
            /\ UNCHANGED <<users, files, blobs, v1, now, nextToken, rotations,
                           held, pending>>

CheckVideos ==
    \E token \in Presentable, device_id \in DeviceIds, videos \in ReportedLists :
        /\ resp' = check_videos(token, device_id, videos)
        /\ UNCHANGED <<users, devices, files, blobs, v1, now, nextToken, rotations,
                       held, pending>>

\* download_file that looks the file up by its id alone.
download_file_anyOwner(file_id, token, device_id) ==
    LET gate == DeviceGate(token, device_id)
        found == {f \in files : f.file_id = file_id}
        file == CHOOSE f \in found : \A g \in found : f.id <= g.id
        R(m) == [Resp("download_file", token, device_id, 0, m) EXCEPT !.file = file_id]
    IN  IF gate # "" THEN R(gate)
        ELSE IF found = {} THEN R("File not found")
        ELSE IF file.url \notin blobs THEN R("File missing on server")
        ELSE [R("success") EXCEPT !.items = {[id |-> file.file_id, url |-> file.url]}]

\* download_file: the gate, the file of the account, the blob on disk.
download_file(file_id, token, device_id) ==
    LET gate == DeviceGate(token, device_id)
        u == UserByToken(token)
        found == {f \in files : f.file_id = file_id /\ f.user_id = u}
        file == CHOOSE f \in found : \A g \in found : f.id <= g.id
        R(m) == [Resp("download_file", token, device_id, 0, m) EXCEPT !.file = file_id]
    IN  IF gate # "" THEN R(gate)
        ELSE IF found = {} THEN R("File not found")
        ELSE IF file.url \notin blobs THEN R("File missing on server")
        ELSE [R("success") EXCEPT !.items = {[id |-> file.file_id, url |-> file.url]}]

DownloadFile ==
    \E file_id \in ContentIds \cup UploadIds, token \in Presentable,
       device_id \in DeviceIds :
        /\ resp' = download_file(file_id, token, device_id)
        /\ UNCHANGED <<users, devices, files, blobs, v1, now, nextToken, rotations,
                       held, pending>>

\* The player behind device d1 reconciles with the token it holds.
Reconcile ==
    \E videos \in ReportedLists :
        /\ resp' = check_videos(held.tok, "d1", videos)
        /\ UNCHANGED <<users, devices, files, blobs, v1, now, nextToken, rotations,
                       held, pending>>

\* The player behind device d1 fetches a file with the token it holds.
Fetch ==
    \E file_id \in ContentIds \cup UploadIds :
        /\ resp' = download_file(file_id, held.tok, "d1")
        /\ UNCHANGED <<users, devices, files, blobs, v1, now, nextToken, rotations,
                       held, pending>>

\* add_device whose account query has lost its filter: the first account of
\* the table, whatever the token.
add_device_unfiltered(token, device_id) ==
    LET u == IF DOMAIN users = {} THEN 0 ELSE First(DOMAIN users)
        R(m) == Resp("add_device", token, device_id, 0, m)
    IN  IF u = 0 THEN [resp |-> R("Invalid token"), devices |-> devices]
        ELSE IF DeviceOf(device_id, u) # {}
        THEN [resp |-> R("deviceID exists"), devices |-> devices]
        ELSE IF \E d \in devices : d.device_id = device_id
        THEN [resp |-> R("IntegrityError"), devices |-> devices]
        ELSE [resp |-> R("success"),
              devices |-> devices \cup {Device(NewRowId, device_id, "unverified", u)}]

\* add_device that answers a repeated registration by resetting the device.
add_device_reset(token, device_id) ==
    LET u == UserByToken(token)
        R(m) == Resp("add_device", token, device_id, 0, m)
        old == DeviceOf(device_id, u)
    IN  IF u = 0 THEN [resp |-> R("Invalid token"), devices |-> devices]
        ELSE IF old # {}
        THEN [resp |-> R("deviceID exists"),
              devices |-> (devices \ old) \cup
                          {[d EXCEPT !.status = "unverified"] : d \in old}]
        ELSE IF \E d \in devices : d.device_id = device_id
        THEN [resp |-> R("IntegrityError"), devices |-> devices]
        ELSE [resp |-> R("success"),
              devices |-> devices \cup {Device(NewRowId, device_id, "unverified", u)}]

\* add_device: self-registration.  The commit fails on the unique index of
\* Device.device_id when another account already holds the id.
add_device(token, device_id) ==
    LET u == UserByToken(token)
        R(m) == Resp("add_device", token, device_id, 0, m)
    IN  IF u = 0 THEN [resp |-> R("Invalid token"), devices |-> devices]
        ELSE IF DeviceOf(device_id, u) # {}
        THEN [resp |-> R("deviceID exists"), devices |-> devices]
        ELSE IF \E d \in devices : d.device_id = device_id
        THEN [resp |-> R("IntegrityError"), devices |-> devices]
        ELSE [resp |-> R("success"),
              devices |-> devices \cup {Device(NewRowId, device_id, "unverified", u)}]

AddDevice ==
    \E token \in Presentable, device_id \in DeviceIds :
        LET r == add_device(token, device_id)
        IN  /\ r.devices # devices => NewRowId <= MaxRowId
            /\ devices' = r.devices
            /\ resp' = r.resp
            /\ UNCHANGED <<users, files, blobs, v1, now, nextToken, rotations, held, pending>>

\* -------------------------------------------- registration, step by step
\* A Device table whose device_id column carries no unique index.
DeviceIdTaken_noIndex(device_id) == FALSE

\* device_id = Column(String, unique=True): the commit of a row is refused
\* when any row of the table holds the same device_id.
DeviceIdTaken(device_id) == \E d \in devices : d.device_id = device_id

\* add_device up to db.add: the account by its token and the search for a
\* device of the same id; a request that passes both waits for its commit.
AddDeviceBegin ==
    \E token \in Presentable, device_id \in DeviceIds :
        LET u == UserByToken(token)
        IN  /\ FreeSlot # 0
            /\ u # 0
            /\ DeviceOf(device_id, u) = {}
            /\ pending' = [pending EXCEPT ![FreeSlot] =
                              [op |-> "add_device", token |-> token,
                               device |-> device_id, user |-> u,
                               read |-> NoResp, at |-> now]]
            /\ UNCHANGED <<users, devices, files, blobs, v1, now, nextToken,
                           rotations, resp, held>>

\* add_device from db.commit on: the row is inserted, or the unique index
\* refuses it and the request ends in an error.
AddDeviceCommit ==
    \E i \in 1..MaxPending :
        LET p == pending[i]
            R(m) == Resp("add_device", p.token, p.device, 0, m)
        IN  /\ p.op = "add_device"
            /\ pending' = [pending EXCEPT ![i] = Idle]
            /\ IF DeviceIdTaken(p.device)
               THEN /\ devices' = devices
                    /\ resp' = R("IntegrityError")
               ELSE /\ NewRowId <= MaxRowId
                    /\ devices' = devices \cup
                                    {Device(NewRowId, p.device, "unverified", p.user)}
                    /\ resp' = R("success")
            /\ UNCHANGED <<users, files, blobs, v1, now, nextToken, rotations, held>>

\* create_device of the admin API: a row with the given device_id and
\* account and no status; the unique index decides the commit.
create_device(device_id, user_id) ==
    LET R(m) == Resp("create_device", NoToken, device_id, 0, m)
    IN  IF DeviceIdTaken(device_id)
        THEN [resp |-> R("IntegrityError"), devices |-> devices]
        ELSE [resp |-> [R("created") EXCEPT !.pk = NewRowId],
              devices |-> devices \cup {Device(NewRowId, device_id, NULL, user_id)}]

CreateDevice ==
    \E device_id \in DeviceIds, user_id \in Users :
        LET r == create_device(device_id, user_id)
        IN  /\ r.devices # devices => NewRowId <= MaxRowId
            /\ devices' = r.devices
            /\ resp' = r.resp
            /\ UNCHANGED <<users, files, blobs, v1, now, nextToken, rotations, held, pending>>

\* device_action of the dashboard: the device by primary key among the
\* devices of the session's user; activate, block or delete it.
device_action(cookie, pk, action) ==
    LET u == UserByToken(cookie)
        found == {d \in devices : d.id = pk /\ d.user_id = u}
        R(m) == Resp("device_action", cookie, action, pk, m)
    IN  IF u = 0 THEN [resp |-> R("login"), devices |-> devices]
        ELSE IF ~require_role(u, DeviceRoles)
        THEN [resp |-> R("forbidden"), devices |-> devices]
        ELSE IF found = {} THEN [resp |-> R("dashboard"), devices |-> devices]
        ELSE [resp |-> R("dashboard"),
              devices |->
                  IF action = "activate"
                  THEN (devices \ found) \cup {[d EXCEPT !.status = "active"] : d \in found}
                  ELSE IF action = "block"
                  THEN (devices \ found) \cup {[d EXCEPT !.status = "blocked"] : d \in found}
                  ELSE IF action = "delete" THEN devices \ found
                  ELSE devices]

\* delete_device of the admin API: any device by its primary key.
delete_device(pk) ==
    LET found == {d \in devices : d.id = pk}
        R(m) == Resp("delete_device", NoToken, NULL, pk, m)
    IN  IF found = {} THEN [resp |-> R("Device not found"), devices |-> devices]
        ELSE [resp |-> R("deleted"), devices |-> devices \ found]

DeleteDevice ==
    \E pk \in 1..MaxRowId :
        LET r == delete_device(pk)
        IN  /\ devices' = r.devices
            /\ resp' = r.resp
            /\ UNCHANGED <<users, files, blobs, v1, now, nextToken, rotations, held, pending>>

DeviceAction ==
    \E cookie \in Presentable, pk \in 1..MaxRowId, action \in Actions :
        LET r == device_action(cookie, pk, action)
        IN  /\ devices' = r.devices
            /\ resp' = r.resp
            /\ UNCHANGED <<users, files, blobs, v1, now, nextToken, rotations, held, pending>>

\* device_action as backend/main.py registers it on the application: the
\* same steps without the role check.
app_device_action(cookie, pk, action) ==
    LET u == UserByToken(cookie)
        found == {d \in devices : d.id = pk /\ d.user_id = u}
        R(m) == Resp("device_action", cookie, action, pk, m)
    IN  IF u = 0 THEN [resp |-> R("login"), devices |-> devices]
        ELSE IF found = {} THEN [resp |-> R("dashboard"), devices |-> devices]
        ELSE [resp |-> R("dashboard"),
              devices |->
                  IF action = "activate"
                  THEN (devices \ found) \cup {[d EXCEPT !.status = "active"] : d \in found}
                  ELSE IF action = "block"
                  THEN (devices \ found) \cup {[d EXCEPT !.status = "blocked"] : d \in found}
                  ELSE IF action = "delete" THEN devices \ found
                  ELSE devices]

AppDeviceAction ==
    \E cookie \in Presentable, pk \in 1..MaxRowId, action \in Actions :
        LET r == app_device_action(cookie, pk, action)
        IN  /\ devices' = r.devices
            /\ resp' = r.resp
            /\ UNCHANGED <<users, files, blobs, v1, now, nextToken, rotations, held, pending>>

\* device_action of the router of web_routers.py: line for line the one of
\* backend/main.py.
router_device_action(cookie, pk, action) == app_device_action(cookie, pk, action)

RouterDeviceAction ==
    \E cookie \in Presentable, pk \in 1..MaxRowId, action \in Actions :
        LET r == router_device_action(cookie, pk, action)
        IN  /\ devices' = r.devices
            /\ resp' = r.resp
            /\ UNCHANGED <<users, files, blobs, v1, now, nextToken, rotations, held, pending>>

\* ------------------------------------------------------- content catalog
\* The primary key of a new File row: one more than the highest in the table.
NewFileRowId == NextId(files)

\* os.path.join(UPLOAD_DIR, f"{file_id}_{file.filename}")
UploadPath(file_id) == file_id \o ".mp4"

\* web_upload_file: the user of the session cookie stores the blob, then the
\* catalog entry under a new id.
web_upload_file(cookie, file_id) ==
    LET u == UserByToken(cookie)
        R(m) == [Resp("web_upload_file", cookie, NULL, 0, m) EXCEPT !.file = file_id]
    IN  IF u = 0
        THEN [resp |-> R("login"), files |-> files, blobs |-> blobs]
        ELSE IF ~require_role(u, FileRoles)
        THEN [resp |-> R("forbidden"), files |-> files, blobs |-> blobs]
        ELSE [resp |-> [R("dashboard") EXCEPT !.pk = NewFileRowId],
              files |-> files \cup {File(NewFileRowId, file_id, UploadPath(file_id), u)},
              blobs |-> blobs \cup {UploadPath(file_id)}]

\* uuid.uuid4().hex: an id no file carries.
WebUploadFile ==
    \E cookie \in Presentable, file_id \in UploadIds :
        LET r == web_upload_file(cookie, file_id)
        IN  /\ \A f \in files : f.file_id # file_id
            /\ r.files # files => NewFileRowId <= MaxFileRowId
            /\ files' = r.files
            /\ blobs' = r.blobs
            /\ resp' = r.resp
            /\ UNCHANGED <<users, devices, v1, now, nextToken, rotations, held, pending>>

\* delete_file (admin API): the file by its id; the blob is removed first and
\* a failure to remove it ends the request with the entry kept.  fails: os.remove
\* raises OSError.
delete_file(file_id, fails) ==
    LET found == {f \in files : f.file_id = file_id}
        file == CHOOSE f \in found : \A g \in found : f.id <= g.id
        R(m) == [Resp("delete_file", NoToken, NULL, 0, m) EXCEPT !.file = file_id]
    IN  IF found = {}
        THEN [resp |-> R("File not found"), files |-> files, blobs |-> blobs]
        ELSE IF file.url \in blobs /\ fails
        THEN [resp |-> [R("Failed to delete file from disk") EXCEPT !.removeFailed = TRUE],
              files |-> files, blobs |-> blobs]
        ELSE [resp |-> [R("deleted") EXCEPT !.pk = file.id],
              files |-> files \ {file}, blobs |-> blobs \ {file.url}]

DeleteFile ==
    \E file_id \in ContentIds \cup UploadIds, fails \in BOOLEAN :
        LET r == delete_file(file_id, fails)
        IN  /\ files' = r.files
            /\ blobs' = r.blobs
            /\ resp' = r.resp
            /\ UNCHANGED <<users, devices, v1, now, nextToken, rotations, held, pending>>

\* web_delete_file: the file of the cookie's user by its id; a failure to
\* remove the blob is passed over and the entry is deleted all the same.
web_delete_file(cookie, file_id, fails) ==
    LET u == UserByToken(cookie)
        found == {f \in files : f.file_id = file_id /\ f.user_id = u}
        file == CHOOSE f \in found : \A g \in found : f.id <= g.id
        R(m) == [Resp("web_delete_file", cookie, NULL, 0, m) EXCEPT !.file = file_id]
    IN  IF u = 0
        THEN [resp |-> R("login"), files |-> files, blobs |-> blobs]
        ELSE IF ~require_role(u, FileRoles)
        THEN [resp |-> R("forbidden"), files |-> files, blobs |-> blobs]
        ELSE IF found = {}
        THEN [resp |-> R("dashboard"), files |-> files, blobs |-> blobs]
        ELSE IF file.url \in blobs /\ fails
        THEN [resp |-> [R("dashboard") EXCEPT !.pk = file.id, !.removeFailed = TRUE],
              files |-> files \ {file}, blobs |-> blobs]
        ELSE [resp |-> [R("dashboard") EXCEPT !.pk = file.id],
              files |-> files \ {file}, blobs |-> blobs \ {file.url}]

WebDeleteFile ==
    \E cookie \in Presentable, file_id \in ContentIds \cup UploadIds,
       fails \in BOOLEAN :
        LET r == web_delete_file(cookie, file_id, fails)
        IN  /\ files' = r.files
            /\ blobs' = r.blobs
            /\ resp' = r.resp
            /\ UNCHANGED <<users, devices, v1, now, nextToken, rotations, held, pending>>

\* web_upload_file as backend/main.py registers it on the application: the
\* same steps without the role check.
app_web_upload_file(cookie, file_id) ==
    LET u == UserByToken(cookie)
        R(m) == [Resp("web_upload_file", cookie, NULL, 0, m) EXCEPT !.file = file_id]
    IN  IF u = 0
        THEN [resp |-> R("login"), files |-> files, blobs |-> blobs]
        ELSE [resp |-> [R("dashboard") EXCEPT !.pk = NewFileRowId],
              files |-> files \cup {File(NewFileRowId, file_id, UploadPath(file_id), u)},
              blobs |-> blobs \cup {UploadPath(file_id)}]

AppWebUploadFile ==
    \E cookie \in Presentable, file_id \in UploadIds :
        LET r == app_web_upload_file(cookie, file_id)
        IN  /\ \A f \in files : f.file_id # file_id
            /\ r.files # files => NewFileRowId <= MaxFileRowId
            /\ files' = r.files
            /\ blobs' = r.blobs
            /\ resp' = r.resp
            /\ UNCHANGED <<users, devices, v1, now, nextToken, rotations, held, pending>>

\* web_upload_file of the router of web_routers.py: line for line the one of
\* backend/main.py.
router_web_upload_file(cookie, file_id) == app_web_upload_file(cookie, file_id)

RouterWebUploadFile ==
    \E cookie \in Presentable, file_id \in UploadIds :
        LET r == router_web_upload_file(cookie, file_id)
        IN  /\ \A f \in files : f.file_id # file_id
            /\ r.files # files => NewFileRowId <= MaxFileRowId
            /\ files' = r.files
            /\ blobs' = r.blobs
            /\ resp' = r.resp
            /\ UNCHANGED <<users, devices, v1, now, nextToken, rotations, held, pending>>

\* web_delete_file as backend/main.py registers it on the application: the
\* same steps without the role check.
app_web_delete_file(cookie, file_id, fails) ==
    LET u == UserByToken(cookie)
        found == {f \in files : f.file_id = file_id /\ f.user_id = u}
        file == CHOOSE f \in found : \A g \in found : f.id <= g.id
        R(m) == [Resp("web_delete_file", cookie, NULL, 0, m) EXCEPT !.file = file_id]
    IN  IF u = 0
        THEN [resp |-> R("login"), files |-> files, blobs |-> blobs]
        ELSE IF found = {}
        THEN [resp |-> R("dashboard"), files |-> files, blobs |-> blobs]
        ELSE IF file.url \in blobs /\ fails
        THEN [resp |-> [R("dashboard") EXCEPT !.pk = file.id, !.removeFailed = TRUE],
              files |-> files \ {file}, blobs |-> blobs]
        ELSE [resp |-> [R("dashboard") EXCEPT !.pk = file.id],
              files |-> files \ {file}, blobs |-> blobs \ {file.url}]

AppWebDeleteFile ==
    \E cookie \in Presentable, file_id \in ContentIds \cup UploadIds,
       fails \in BOOLEAN :
        LET r == app_web_delete_file(cookie, file_id, fails)
        IN  /\ files' = r.files
            /\ blobs' = r.blobs
            /\ resp' = r.resp
            /\ UNCHANGED <<users, devices, v1, now, nextToken, rotations, held, pending>>

\* web_delete_file of the router of web_routers.py: line for line the one of
\* backend/main.py.
router_web_delete_file(cookie, file_id, fails) ==
    app_web_delete_file(cookie, file_id, fails)

RouterWebDeleteFile ==
    \E cookie \in Presentable, file_id \in ContentIds \cup UploadIds,
       fails \in BOOLEAN :
        LET r == router_web_delete_file(cookie, file_id, fails)
        IN  /\ files' = r.files
            /\ blobs' = r.blobs
            /\ resp' = r.resp
            /\ UNCHANGED <<users, devices, v1, now, nextToken, rotations, held, pending>>

\* file_id = Column(String, unique=True)
FileIdTaken(file_id) == \E f \in files : f.file_id = file_id

\* FileCreate.file_id: the id of an upload and the id of a file of init_db.py.
CreateIds == UploadIds \cup {"a"}

\* FileCreate.url: the path of an upload and the path of a file of init_db.py.
Paths == {UploadPath(id) : id \in UploadIds \cup {"a"}}

\* create_file of the admin API: a catalog entry with the file_id, the url
\* and the account id the request names; no blob is written and the account
\* is not looked up.  The unique index of File.file_id decides the commit.
create_file(file_id, url, user_id) ==
    LET R(m) == [Resp("create_file", NoToken, NULL, 0, m) EXCEPT !.file = file_id]
    IN  IF FileIdTaken(file_id)
        THEN [resp |-> R("IntegrityError"), files |-> files]
        ELSE [resp |-> [R("created") EXCEPT !.pk = NewFileRowId],
              files |-> files \cup {File(NewFileRowId, file_id, url, user_id)}]

CreateFile ==
    \E file_id \in CreateIds, url \in Paths, user_id \in Users :
        LET r == create_file(file_id, url, user_id)
        IN  /\ r.files # files => NewFileRowId <= MaxFileRowId
            /\ files' = r.files
            /\ resp' = r.resp
            /\ UNCHANGED <<users, devices, blobs, v1, now, nextToken, rotations,
                           held, pending>>

\* upload_file of the admin API: the blob, then the catalog entry under a
\* new id, for the account the request names by its primary key.
upload_file(user_id, file_id) ==
    LET R(m) == [Resp("upload_file", NoToken, NULL, user_id, m) EXCEPT !.file = file_id]
    IN  IF user_id \notin DOMAIN users
        THEN [resp |-> R("User not found"), files |-> files, blobs |-> blobs]
        ELSE [resp |-> R("uploaded"),
              files |-> files \cup {File(NewFileRowId, file_id, UploadPath(file_id),
                                         user_id)},
              blobs |-> blobs \cup {UploadPath(file_id)}]

\* uuid.uuid4().hex: an id no file carries.
UploadFile ==
    \E user_id \in Users, file_id \in UploadIds :
        LET r == upload_file(user_id, file_id)
        IN  /\ \A f \in files : f.file_id # file_id
            /\ r.files # files => NewFileRowId <= MaxFileRowId
            /\ files' = r.files
            /\ blobs' = r.blobs
            /\ resp' = r.resp
            /\ UNCHANGED <<users, devices, v1, now, nextToken, rotations, held, pending>>

\* ------------------------------------------- handlers of the first version
\* db.query(User).filter(User.token == data.token).first() on the first
\* version's table; 0 stands for None
V1UserByToken(token) ==
    LET found == {u.id : u \in {w \in v1.users : w.token = token}}
    IN  IF found = {} THEN 0 ELSE First(found)

\* create_user of the first version: an account with the username and the
\* token the request names; both columns are unique.
v1_create_user(username, token) ==
    LET pk == NextId(v1.users)
        R(m) == Resp("v1_create_user", token, NULL, 0, m)
    IN  IF \E w \in v1.users : w.username = username \/ w.token = token
        THEN [resp |-> R("IntegrityError"), users |-> v1.users]
        ELSE [resp |-> [R("created") EXCEPT !.pk = pk],
              users |-> v1.users \cup {V1User(pk, username, token)}]

V1CreateUser ==
    \E username \in Usernames, token \in V1Tokens :
        LET r == v1_create_user(username, token)
        IN  /\ r.users # v1.users => NextId(v1.users) \in Users
            /\ v1' = [v1 EXCEPT !.users = r.users]
            /\ resp' = r.resp
            /\ UNCHANGED <<users, devices, files, blobs, now, nextToken, rotations,
                           held, pending>>

\* delete_user of the first version: any account by its primary key; its
\* devices and files stay, their user_id set to None.
v1_delete_user(user_id) ==
    LET found == {w \in v1.users : w.id = user_id}
        R(m) == Resp("v1_delete_user", NoToken, NULL, user_id, m)
    IN  IF found = {} THEN [resp |-> R("User not found"), tables |-> v1]
        ELSE [resp |-> R("deleted"),
              tables |-> [users |-> v1.users \ found,
                          devices |-> WithoutUser(v1.devices, user_id),
                          files |-> WithoutUser(v1.files, user_id)]]

V1DeleteUser ==
    \E user_id \in Users :
        LET r == v1_delete_user(user_id)
        IN  /\ v1' = r.tables
            /\ resp' = r.resp
            /\ UNCHANGED <<users, devices, files, blobs, now, nextToken, rotations,
                           held, pending>>

\* register_device: a new device of the token's account, active at once.
register_device(token) ==
    LET u == V1UserByToken(token)
        pk == NextId(v1.devices)
        R(m) == Resp("register_device", token, NULL, 0, m)
    IN  IF u = 0 THEN [resp |-> R("Invalid user token"), devices |-> v1.devices]
        ELSE [resp |-> [R("registered") EXCEPT !.pk = pk],
              devices |-> v1.devices \cup {V1Device(pk, "active", u)}]

RegisterDevice ==
    \E token \in V1Tokens :
        LET r == register_device(token)
        IN  /\ r.devices # v1.devices => NextId(v1.devices) <= MaxRowId
            /\ v1' = [v1 EXCEPT !.devices = r.devices]
            /\ resp' = r.resp
            /\ UNCHANGED <<users, devices, files, blobs, now, nextToken, rotations,
                           held, pending>>

\* create_device of the first version: a row with the status and the account
\* id the request names.
v1_create_device(status, user_id) ==
    LET pk == NextId(v1.devices)
    IN  [resp |-> [Resp("v1_create_device", NoToken, status, pk, "created")
                      EXCEPT !.pk = pk],
         devices |-> v1.devices \cup {V1Device(pk, status, user_id)}]

V1CreateDevice ==
    \E status \in Statuses, user_id \in Users :
        LET r == v1_create_device(status, user_id)
        IN  /\ NextId(v1.devices) <= MaxRowId
            /\ v1' = [v1 EXCEPT !.devices = r.devices]
            /\ resp' = r.resp
            /\ UNCHANGED <<users, devices, files, blobs, now, nextToken, rotations,
                           held, pending>>

\* delete_device of the first version: any device by its primary key.
v1_delete_device(pk) ==
    LET found == {d \in v1.devices : d.id = pk}
        R(m) == Resp("v1_delete_device", NoToken, NULL, pk, m)
    IN  IF found = {} THEN [resp |-> R("Device not found"), devices |-> v1.devices]
        ELSE [resp |-> R("deleted"), devices |-> v1.devices \ found]

V1DeleteDevice ==
    \E pk \in 1..MaxRowId :
        LET r == v1_delete_device(pk)
        IN  /\ v1' = [v1 EXCEPT !.devices = r.devices]
            /\ resp' = r.resp
            /\ UNCHANGED <<users, devices, files, blobs, now, nextToken, rotations,
                           held, pending>>

\* verify_device: account by token, device by primary key and account.
verify_device(token, pk) ==
    LET u == V1UserByToken(token)
        found == {d \in v1.devices : d.id = pk /\ d.user_id = u}
        R(m) == Resp("verify_device", token, NULL, pk, m)
    IN  IF u = 0 THEN R("Invalid user token")
        ELSE IF found = {} THEN R("Device does not belong to this user")
        ELSE IF (CHOOSE d \in found : TRUE).status # "active"
        THEN R("Device blocked or inactive")
        ELSE R("ok")

VerifyDevice ==
    \E token \in V1Tokens, pk \in 1..MaxRowId :
        /\ resp' = verify_device(token, pk)
        /\ UNCHANGED <<users, devices, files, blobs, v1, now, nextToken, rotations,
                       held, pending>>

\* check_content: the device by primary key, then the diff of its account's
\* file names against the reported list.  device.user is None for a device
\* whose user_id names no account, and reading its files raises.
check_content(pk, reported) ==
    LET found == {d \in v1.devices : d.id = pk}
        device == CHOOSE d \in found : TRUE
        server_files == {f.filename : f \in {g \in v1.files : g.user_id = device.user_id}}
        client_files == ToSet(reported)
        R(m) == [Resp("check_content", NoToken, NULL, pk, m) EXCEPT !.videos = reported]
    IN  IF found = {} THEN R("Device not found")
        ELSE IF \A u \in v1.users : u.id # device.user_id THEN R("AttributeError")
        ELSE [R("success") EXCEPT !.actual = (server_files = client_files),
                                  !.toFetch = server_files \ client_files,
                                  !.toDelete = client_files \ server_files]

CheckContent ==
    \E pk \in 1..MaxRowId, reported \in ReportedLists :
        /\ resp' = check_content(pk, reported)
        /\ UNCHANGED <<users, devices, files, blobs, v1, now, nextToken, rotations,
                       held, pending>>

\* update_device_status: any device, any status but its own.
update_device_status(pk, status) ==
    LET found == {d \in v1.devices : d.id = pk}
        device == CHOOSE d \in found : TRUE
        R(m) == Resp("update_device_status", NoToken, status, pk, m)
    IN  IF found = {} THEN [resp |-> R("Device not found"), devices |-> v1.devices]
        ELSE IF device.status = status
        THEN [resp |-> R("unsuccessful"), devices |-> v1.devices]
        ELSE [resp |-> R("successful"),
              devices |-> (v1.devices \ found) \cup {[device EXCEPT !.status = status]}]

UpdateDeviceStatus ==
    \E pk \in 1..MaxRowId, status \in Statuses :
        LET r == update_device_status(pk, status)
        IN  /\ v1' = [v1 EXCEPT !.devices = r.devices]
            /\ resp' = r.resp
            /\ UNCHANGED <<users, devices, files, blobs, now, nextToken, rotations,
                           held, pending>>

\* create_file of the first version: a row with the file name and the
\* account id the request names.
v1_create_file(filename, user_id) ==
    LET pk == NextId(v1.files)
    IN  [resp |-> [Resp("v1_create_file", NoToken, NULL, pk, "created")
                      EXCEPT !.file = filename],
         files |-> v1.files \cup {V1File(pk, filename, user_id)}]

V1CreateFile ==
    \E filename \in ContentIds, user_id \in Users :
        LET r == v1_create_file(filename, user_id)
        IN  /\ NextId(v1.files) <= MaxV1FileRowId
            /\ v1' = [v1 EXCEPT !.files = r.files]
            /\ resp' = r.resp
            /\ UNCHANGED <<users, devices, files, blobs, now, nextToken, rotations,
                           held, pending>>

\* delete_file of the first version: any file by its primary key.
v1_delete_file(pk) ==
    LET found == {f \in v1.files : f.id = pk}
        R(m) == Resp("v1_delete_file", NoToken, NULL, pk, m)
    IN  IF found = {} THEN [resp |-> R("File not found"), files |-> v1.files]
        ELSE [resp |-> R("deleted"), files |-> v1.files \ found]

V1DeleteFile ==
    \E pk \in 1..MaxV1FileRowId :
        LET r == v1_delete_file(pk)
        IN  /\ v1' = [v1 EXCEPT !.files = r.files]
            /\ resp' = r.resp
            /\ UNCHANGED <<users, devices, files, blobs, now, nextToken, rotations,
                           held, pending>>

\* -------------------------------------------------------------------- time
Tick ==
    /\ now < MaxTime
    /\ now' = now + 1
    /\ UNCHANGED <<users, devices, files, blobs, v1, nextToken, rotations, resp,
                   held, pending>>

\* The clock passes the grace period in one step.
Wait ==
    /\ now + GRACE_PERIOD + 1 <= MaxTime
    /\ now' = now + GRACE_PERIOD + 1
    /\ UNCHANGED <<users, devices, files, blobs, v1, nextToken, rotations, resp,
                   held, pending>>

\* The clock moves on, but not past the grace period of account 1's rotation
\* request before a credential check has been answered since: where the only
\* requests are that rotation request and the polls of the player, the
\* player polls within the grace period of the rotation.
TickPolled ==
    /\ (rotations[1].toks # <<>> /\ resp.op # "authenticate") =>
           now + 1 - rotations[1].at <= GRACE_PERIOD
    /\ Tick

\* -------------------------------------------------------------------- init
\* backend/init_db.py: the admin with one active device and three files, no
\* token rotated, nothing under uploads/videos.
InitBackend ==
    /\ users = (1 :> User("admin", 1, NoToken, NoTime, "admin"))
    /\ devices = {Device(1, "d1", "active", 1)}
    /\ files = {File(1, "a", "a.mp4", 1), File(2, "b", "b.mp4", 1),
                File(3, "c", "c.mp4", 1)}
    /\ blobs = {}

\* init_db.py of the first version: one user, one active device, two files.
InitV1 ==
    v1 = [users |-> {V1User(1, "admin", "ADMIN_TOKEN")},
          devices |-> {V1Device(1, "active", 1)},
          files |-> {V1File(1, "a", 1), V1File(2, "b", 1)}]

\* Both databases as their scripts leave them, the clock at 0, the token
\* generator past the admin's token, no request made yet.
Init ==
    /\ InitBackend
    /\ InitV1
    /\ now = 0
    /\ nextToken = 2
    /\ rotations = [u \in Users |-> [toks |-> <<>>, new |-> NoToken, at |-> NoTime]]
    /\ resp = NoResp
    /\ held = [tok |-> 1, last |-> "none", at |-> NoTime]
    /\ pending = [i \in 1..MaxPending |-> Idle]

\* The requests of the current application.
NextBackend ==
    \/ RefreshToken
    \/ AdminCreateUser
    \/ AdminDeleteUser
    \/ AdminEditUser
    \/ CreateUser
    \/ DeleteUser
    \/ Authenticate
    \/ CheckVideos
    \/ DownloadFile
    \/ AddDevice
    \/ CreateDevice
    \/ DeleteDevice
    \/ DeviceAction
    \/ AppDeviceAction
    \/ RouterDeviceAction
    \/ CreateFile
    \/ UploadFile
    \/ WebUploadFile
    \/ AppWebUploadFile
    \/ RouterWebUploadFile
    \/ DeleteFile
    \/ WebDeleteFile
    \/ AppWebDeleteFile
    \/ RouterWebDeleteFile

\* The requests of the first version.
NextV1 ==
    \/ V1CreateUser
    \/ V1DeleteUser
    \/ RegisterDevice
    \/ V1CreateDevice
    \/ V1DeleteDevice
    \/ UpdateDeviceStatus
    \/ VerifyDevice
    \/ CheckContent
    \/ V1CreateFile
    \/ V1DeleteFile

\* The player behind device d1, and the requests taken step by step.
NextSteps ==
    \/ Poll
    \/ AuthBegin
    \/ AuthCommit
    \/ AddDeviceBegin
    \/ AddDeviceCommit

\* Both applications, each on its own database, and the clock.  Reconcile and
\* Fetch are CheckVideos and DownloadFile with the player's token, Wait is
\* GRACE_PERIOD + 1 Ticks, TickPolled and RotateOnce are Tick and
\* RefreshToken under a condition.
Next ==
    \/ NextBackend
    \/ NextV1
    \/ NextSteps
    \/ Tick

Spec == Init /\ [][Next]_vars

\* Credentials: rotation requests, the credential check, the clock, the
\* operator's actions on the devices, and the first version's credential
\* check and status update.
NextCred ==
    \/ RefreshToken
    \/ Authenticate
    \/ Tick
    \/ DeviceAction
    \/ VerifyDevice
    \/ UpdateDeviceStatus

SpecCred == Init /\ [][NextCred]_vars

\* The users table: accounts created and deleted by the admin's session and
\* by the admin API, rotation requests, the credential check and the clock.
NextUsers ==
    \/ AdminCreateUser
    \/ AdminDeleteUser
    \/ DeleteUser
    \/ RefreshToken
    \/ Authenticate
    \/ Wait

SpecUsers == Init /\ [][NextUsers]_vars

\* Devices: registration, the operator's actions and the device-facing
\* requests of both applications.
NextDev ==
    \/ AddDevice
    \/ DeviceAction
    \/ AppDeviceAction
    \/ DeleteDevice
    \/ Authenticate
    \/ CheckVideos
    \/ DownloadFile
    \/ RegisterDevice
    \/ UpdateDeviceStatus
    \/ VerifyDevice
    \/ CheckContent

SpecDev == Init /\ [][NextDev]_vars

\* Devices of the first version: registration, creation, deletion and status
\* updates, its device-facing requests, and self-registration with the
\* current application.
NextV1Dev ==
    \/ V1CreateUser
    \/ V1DeleteUser
    \/ RegisterDevice
    \/ V1CreateDevice
    \/ V1DeleteDevice
    \/ UpdateDeviceStatus
    \/ VerifyDevice
    \/ CheckContent
    \/ AddDevice

SpecV1Dev == Init /\ [][NextV1Dev]_vars

\* Registration: self-registration against rotation requests and the
\* operator's actions on the registered devices.
NextReg ==
    \/ AddDevice
    \/ DeviceAction
    \/ RefreshToken

SpecReg == Init /\ [][NextReg]_vars

\* Accounts and roles: accounts created by the admin API and edited by the
\* admin's session, self-registration under the accounts, and the dashboard's
\* actions on the registered devices with and without the role check.
NextAccounts ==
    \/ CreateUser
    \/ AdminEditUser
    \/ AddDevice
    \/ DeviceAction
    \/ AppDeviceAction

SpecAccounts == Init /\ [][NextAccounts]_vars

\* Owners: accounts created and deleted by the admin API, self-registration
\* under the accounts, and the dashboard's actions on the registered devices.
NextOwners ==
    \/ CreateUser
    \/ DeleteUser
    \/ AddDevice
    \/ DeviceAction
    \/ AppDeviceAction

SpecOwners == Init /\ [][NextOwners]_vars

\* Concurrent registration: registrations whose check and commit interleave,
\* registrations in one step, and the admin API deleting the account and
\* creating and deleting devices.
NextRegRace ==
    \/ AddDeviceBegin
    \/ AddDeviceCommit
    \/ AddDevice
    \/ CreateDevice
    \/ DeleteDevice
    \/ DeleteUser

SpecRegRace == Init /\ [][NextRegRace]_vars

\* Reads: the credential check and the reconcile requests of both
\* applications, against rotation requests and the clock.
NextFrame ==
    \/ RefreshToken
    \/ Wait
    \/ Authenticate
    \/ CheckVideos
    \/ CheckContent

SpecFrame == Init /\ [][NextFrame]_vars

\* Racing credential checks: rotation requests, the clock, the credential
\* check in one step and the credential check whose read and write
\* interleave with others.
NextRace ==
    \/ RefreshToken
    \/ Wait
    \/ Authenticate
    \/ AuthBegin
    \/ AuthCommit

SpecRace == Init /\ [][NextRace]_vars

\* Polling: one rotation request, the clock, and the player of device d1
\* polling again and again.
NextPoll ==
    \/ Poll
    \/ RotateOnce
    \/ TickPolled

SpecPoll == Init /\ [][NextPoll]_vars /\ WF_vars(Poll)

\* Content: the catalog of the current application changing under account
\* creation, uploads and deletions by the dashboard and the admin API, the
\* player of device d1 reconciling and fetching, and the first version's
\* reconcile request.
NextContent ==
    \/ CreateUser
    \/ WebUploadFile
    \/ AppWebUploadFile
    \/ UploadFile
    \/ DeleteFile
    \/ WebDeleteFile
    \/ AppWebDeleteFile
    \/ Reconcile
    \/ Fetch
    \/ CheckContent

SpecContent == Init /\ [][NextContent]_vars

\* Roles and the catalog: accounts created and edited into any role, and
\* uploads and deletions through the role-checked web routes, their unchecked
\* copies and the admin API.
NextRoles ==
    \/ CreateUser
    \/ AdminEditUser
    \/ WebUploadFile
    \/ AppWebUploadFile
    \/ DeleteFile
    \/ WebDeleteFile
    \/ AppWebDeleteFile

SpecRoles == Init /\ [][NextRoles]_vars

\* Catalog ownership: accounts and catalog entries created by the admin API
\* under any account id, uploads and deletions, and the player of device d1
\* reconciling and fetching.
NextCatalog ==
    \/ CreateUser
    \/ CreateFile
    \/ UploadFile
    \/ DeleteFile
    \/ Reconcile
    \/ Fetch

SpecCatalog == Init /\ [][NextCatalog]_vars

\* Convergence: the catalogs of both applications shrinking under deletions,
\* the first version's reconcile request, and the player of device d1
\* reconciling with the current application.
NextConverge ==
    \/ V1DeleteFile
    \/ DeleteFile
    \/ CheckContent
    \/ Reconcile

SpecConverge == Init /\ [][NextConverge]_vars

\* ================================================================ properties
\* Account u has made a rotation request.
Rotated(u) == rotations[u].toks # <<>>

\* The token the last rotation request of account u presented: the one the
\* rotation supersedes.
Superseded(u) == rotations[u].toks[Len(rotations[u].toks)]

\* The active devices of an account that carry a device_id.
ActiveDevices(u) ==
    {d \in devices : d.user_id = u /\ d.status = "active" /\ d.device_id # NULL}

\* C1: every account holds a previous credential if and only if it holds a
\* rotation timestamp.
C1_PreviousIffTimestamp ==
    \A u \in DOMAIN users :
        (users[u].old_token # NoToken) <=> (users[u].token_changed_at # NoTime)

\* C1 witness: an account has made a rotation request, which was answered,
\* and holds neither a previous credential nor a rotation timestamp.
C1_Witness ==
    /\ resp.op = "refresh_user_token"
    /\ resp.message # "login"
    /\ \E u \in DOMAIN users :
          /\ Rotated(u)
          /\ resp.token = Superseded(u)
          /\ users[u].old_token = NoToken
          /\ users[u].token_changed_at = NoTime

\* C2: a request with an account's current credential and the id of one of
\* its active devices is accepted: authenticate answers "current" and writes
\* nothing, check_videos lets the device through, and so does verify_device
\* of the first version for its accounts and devices.
C2_CurrentCredentialAccepted ==
    /\ \A u \in DOMAIN users : \A d \in ActiveDevices(u) :
          LET r == authenticate(users[u].token, d.device_id)
          IN  /\ r.resp.message = "current"
              /\ r.users = users
              /\ DeviceGate(users[u].token, d.device_id) = ""
    /\ \A w \in v1.users : \A d \in v1.devices :
          (d.user_id = w.id /\ d.status = "active") =>
              verify_device(w.token, d.id).message = "ok"

\* C2 witness: authenticate answered "current" to the current token of an
\* account that has made two rotation requests, on a device that is active.
C2_Witness ==
    /\ resp.op = "authenticate"
    /\ resp.message = "current"
    /\ \E u \in DOMAIN users :
          /\ resp.token = users[u].token
          /\ Len(rotations[u].toks) = 2
          /\ \E d \in ActiveDevices(u) : d.device_id = resp.device

\* C3: less than GRACE_PERIOD minutes after a rotation, authenticate with the
\* token the rotation superseded, from an active device of the account,
\* answers "superseded" with the token the rotation generated and changes
\* nothing, so a second call meets the same state and gives the same answer.
C3_SupersededWithinGrace ==
    \A u \in DOMAIN users :
        (Rotated(u) /\ now - rotations[u].at < GRACE_PERIOD) =>
            \A d \in ActiveDevices(u) :
                LET r == authenticate(Superseded(u), d.device_id)
                IN  /\ r.resp.message = "superseded"
                    /\ r.resp.fresh = rotations[u].new
                    /\ r.users = users

\* C4: more than GRACE_PERIOD minutes after a rotation, authenticate with the
\* superseded token from an active device fails with GracePeriodExpired and
\* clears the archived token while the account still archives it, and fails
\* with InvalidCredential once it is cleared.
C4_ExpiredThenInvalid ==
    \A u \in DOMAIN users :
        (Rotated(u) /\ now - rotations[u].at > GRACE_PERIOD) =>
            \A d \in ActiveDevices(u) :
                LET r == authenticate(Superseded(u), d.device_id)
                IN  IF users[u].old_token = Superseded(u)
                    THEN /\ r.resp.message = "GracePeriodExpired"
                         /\ r.users = [users EXCEPT ![u].old_token = NoToken]
                    ELSE r.resp.message = "InvalidCredential"

\* C5: a token that two or more rotations of an account have left behind is
\* neither the current nor the archived token of any account, and
\* authenticate refuses it with InvalidCredential for every device.
C5_OneGenerationKept ==
    \A u \in DOMAIN users : \A i \in 1..(Len(rotations[u].toks) - 1) :
        LET t == rotations[u].toks[i]
        IN  /\ \A v \in DOMAIN users : users[v].token # t /\ users[v].old_token # t
            /\ \A device_id \in DeviceIds :
                  authenticate(t, device_id).resp.message = "InvalidCredential"

\* C6: every authenticate, reconcile or fetch request that was served was
\* addressed to a device whose status is active, in both applications.
C6_OnlyActiveServed ==
    /\ (resp.op \in {"check_content", "verify_device"}
          /\ resp.message \in {"success", "ok"}) =>
              \A d \in v1.devices : d.id = resp.pk => d.status = "active"
    /\ (resp.op \in {"authenticate", "check_videos", "download_file"}
          /\ resp.message \in {"current", "superseded", "success"}) =>
              \A d \in devices : d.device_id = resp.device => d.status = "active"

\* C7: the device a registration request has just created is unverified, in
\* both applications, and an unverified device is let through by no
\* credential check.
C7_RegisteredUnverified ==
    /\ (resp.op = "register_device" /\ resp.message = "registered") =>
          \A d \in v1.devices : d.id = resp.pk => d.status = "unverified"
    /\ (resp.op = "add_device" /\ resp.message = "success") =>
          \A d \in devices : d.device_id = resp.device => d.status = "unverified"
    /\ \A d \in devices :
          (d.status = "unverified" /\ d.device_id # NULL) =>
              \A token \in Presentable :
                  /\ authenticate(token, d.device_id).resp.message
                        \notin {"current", "superseded"}
                  /\ DeviceGate(token, d.device_id) # ""

\* C8: the status of a device changes only from unverified to active, from
\* active to blocked or from blocked to active, in both applications.
C8_StatusTransitions ==
    [][/\ \A d \in devices : \A e \in devices' :
             (e.id = d.id /\ e.status # d.status) =>
                 <<d.status, e.status>> \in {<<"unverified", "active">>,
                                             <<"active", "blocked">>,
                                             <<"blocked", "active">>}
       /\ \A d \in v1.devices : \A e \in v1'.devices :
             (e.id = d.id /\ e.status # d.status) =>
                 <<d.status, e.status>> \in {<<"unverified", "active">>,
                                             <<"active", "blocked">>,
                                             <<"blocked", "active">>}]_vars

C10_DuplicateRefused ==
    \A d \in devices :
        (d.device_id # NULL /\ d.user_id \in DOMAIN users) =>
            LET r == add_device(users[d.user_id].token, d.device_id)
            IN  /\ r.resp.message = "deviceID exists"
                /\ r.devices = devices

\* C10 witness: a repeated registration was refused while the registered
\* device is blocked.
C10_Witness ==
    /\ resp.op = "add_device"
    /\ resp.message = "deviceID exists"
    /\ \E d \in devices :
          /\ d.device_id = resp.device
          /\ d.user_id \in DOMAIN users
          /\ users[d.user_id].token = resp.token
          /\ d.status = "blocked"

\* C11: no two rows of the Device table carry the same device_id under the
\* same account.
C11_OnePerAccountAndId ==
    \A d \in devices : \A e \in devices :
        (d.device_id # NULL /\ d.device_id = e.device_id /\ d.user_id = e.user_id)
            => d = e

\* C11 witness: a registration that had passed the duplicate check was
\* refused at its commit, the account holding the device by then.
C11_Witness ==
    /\ resp.op = "add_device"
    /\ resp.message = "IntegrityError"
    /\ \E d \in devices :
          /\ d.device_id = resp.device
          /\ d.user_id = UserByToken(resp.token)
          /\ d.status = "unverified"

\* C12: a registration with an account's current token and a device_id that
\* only other accounts hold succeeds and leaves the account with an
\* unverified device of that id.
C12_IdScopedPerAccount ==
    (/\ resp.op = "add_device"
     /\ UserByToken(resp.token) # 0
     /\ resp.message # "deviceID exists") =>
        /\ resp.message = "success"
        /\ \E d \in devices : /\ d.device_id = resp.device
                              /\ d.user_id = UserByToken(resp.token)
                              /\ d.status = "unverified"

\* ------------------------------------------------------------ reconciliation
\* serverIds: the content ids of account u in the current application.
CatalogIds(u) == {f.file_id : f \in {g \in files : g.user_id = u}}

\* serverIds in the first version: the file names of account u.
V1CatalogNames(u) == {f.filename : f \in {g \in v1.files : g.user_id = u}}

\* The last answer is that of a reconcile request that was served.
Reconciled == resp.op \in {"check_videos", "check_content"} /\ resp.message = "success"

\* The catalog the last reconcile request was answered from: that of the
\* token's account for check_videos, of the device's account for
\* check_content.
ReconciledCatalog ==
    IF resp.op = "check_videos" THEN CatalogIds(UserByToken(resp.token))
    ELSE V1CatalogNames((CHOOSE d \in v1.devices : d.id = resp.pk).user_id)

\* The set a device holds once it has applied the last answer: the ids of the
\* manifest, or its reported set with toFetch added and toDelete removed.
Applied ==
    IF resp.op = "check_videos" THEN {i.id : i \in resp.items}
    ELSE (ToSet(resp.videos) \cup resp.toFetch) \ resp.toDelete

\* C13: a reconcile answer says actual exactly when the set of the reported
\* list equals the catalog of the device's account; when it does not,
\* check_content answers the two differences and check_videos a manifest
\* with exactly the ids of the catalog.
C13_ReconcileDiff ==
    Reconciled =>
        LET S == ReconciledCatalog
            R == ToSet(resp.videos)
        IN  /\ resp.actual <=> (R = S)
            /\ (resp.op = "check_content" /\ ~resp.actual) =>
                   (resp.toFetch = S \ R /\ resp.toDelete = R \ S)
            /\ (resp.op = "check_videos" /\ ~resp.actual) =>
                   {i.id : i \in resp.items} = S

\* A list with a repeated id was reported against a catalog of as many
\* entries as the list is long, and the answer was "not actual".
C13_Witness ==
    /\ Reconciled
    /\ resp.op = "check_videos"
    /\ Len(resp.videos) = 2
    /\ Cardinality(ToSet(resp.videos)) = 1
    /\ Cardinality(ReconciledCatalog) = 2
    /\ ~resp.actual

\* C14: a device that applies a reconcile answer holds the catalog of its
\* account, and its next reconcile request, with the catalog as it is,
\* is answered actual.
C14_ConvergesInOneRound ==
    (Reconciled /\ ~resp.actual) =>
        /\ Applied = ReconciledCatalog
        /\ \A videos \in ReportedLists :
               ToSet(videos) = Applied =>
                   IF resp.op = "check_videos"
                   THEN check_videos(resp.token, resp.device, videos).actual
                   ELSE check_content(resp.pk, videos).actual

\* C14 witness: the player reported one id of the catalog and one the catalog
\* does not have and lacked another; the manifest it was answered makes it
\* hold the catalog, and reporting that set is answered actual.  In the same
\* state the first version answers such a report with a diff that leads to
\* its catalog, which is answered actual in turn.
C14_Witness ==
    /\ Reconciled
    /\ resp.op = "check_videos"
    /\ ~resp.actual
    /\ ToSet(resp.videos) \cap ReconciledCatalog # {}
    /\ ToSet(resp.videos) \ ReconciledCatalog # {}
    /\ ReconciledCatalog \ ToSet(resp.videos) # {}
    /\ \E videos \in ReportedLists :
          /\ ToSet(videos) = Applied
          /\ check_videos(resp.token, resp.device, videos).actual
    /\ \E reported \in ReportedLists, next \in ReportedLists :
          LET c == check_content(1, reported)
          IN  /\ c.message = "success"
              /\ c.toFetch # {}
              /\ c.toDelete # {}
              /\ ToSet(reported) \cap V1CatalogNames(1) # {}
              /\ ToSet(next) = (ToSet(reported) \cup c.toFetch) \ c.toDelete
              /\ check_content(1, next).actual

\* C17: when the blob of a deleted file could not be removed, the catalog
\* entry is still there or the request reported the failure.
C17_EntryKeptOrFailureReported ==
    (resp.op \in {"delete_file", "web_delete_file"} /\ resp.removeFailed) =>
        \/ \E f \in files : f.file_id = resp.file
        \/ resp.message = "Failed to delete file from disk"

\* C20: what a reconcile or fetch request returns comes from the catalog of
\* the caller's account alone: manifest items, ids to fetch and the fetched
\* blob belong to that account, the ids to delete are reported ids the
\* account does not have, and a file of another account is "not found".
C20_ContentIsolated ==
    /\ (resp.op \in {"check_videos", "download_file"} /\ resp.message = "success") =>
           \A i \in resp.items :
               \E f \in files : /\ f.user_id = UserByToken(resp.token)
                                /\ f.file_id = i.id /\ f.url = i.url
    /\ Reconciled =>
           /\ resp.toFetch \subseteq ReconciledCatalog
           /\ resp.toDelete \subseteq ToSet(resp.videos) \ ReconciledCatalog
    /\ (resp.op = "download_file" /\ DeviceGate(resp.token, resp.device) = ""
           /\ resp.file \notin CatalogIds(UserByToken(resp.token))) =>
           (resp.message = "File not found" /\ resp.items = {})

\* An active device asked for a file of another account, whose blob is on
\* disk, and was told the file is not found.
C20_Witness ==
    /\ resp.op = "download_file"
    /\ DeviceGate(resp.token, resp.device) = ""
    /\ \E f \in files : /\ f.file_id = resp.file
                         /\ f.user_id # UserByToken(resp.token)
                         /\ f.user_id \in DOMAIN users
                         /\ f.url \in blobs
    /\ resp.message = "File not found"

\* ------------------------------------------------------------------ frame
ReadOps == {"authenticate", "check_videos", "check_content"}

\* The request of the last answer, made again in the current state, is
\* answered the same and (for authenticate) writes nothing.
Repeated ==
    CASE resp.op = "authenticate" ->
             /\ authenticate(resp.token, resp.device).resp = resp
             /\ authenticate(resp.token, resp.device).users = users
      [] resp.op = "check_videos" ->
             check_videos(resp.token, resp.device, resp.videos) = resp
      [] resp.op = "check_content" ->
             check_content(resp.pk, resp.videos) = resp
      [] OTHER -> TRUE

\* C15: a step that answers an authenticate or reconcile request with
\* anything but GracePeriodExpired leaves accounts, devices, files and blobs
\* of both applications as they were, and the same request made again is
\* answered the same.
C15_ReadsWriteNothing ==
    [][(/\ now' = now
        /\ resp'.op \in ReadOps
        /\ resp'.message # "GracePeriodExpired")
       => (UNCHANGED <<users, devices, files, blobs, v1>> /\ Repeated')]_vars

\* A reconcile request for a device id the account of its token does not
\* have was refused, and no device carries that id afterwards.
C15_Witness ==
    /\ resp.op = "check_videos"
    /\ resp.message = "Unknown device"
    /\ UserByToken(resp.token) # 0
    /\ \A d \in devices : d.device_id # resp.device

\* ------------------------------------------------------------------ races
\* Credential check i has read the account after the grace period of the
\* rotation that superseded the token it presented, on an active device.
ReadExpired(i) ==
    LET p == pending[i]
    IN  /\ p.op = "authenticate"
        /\ p.user # 0
        /\ Rotated(p.user)
        /\ p.token = Superseded(p.user)
        /\ p.at - rotations[p.user].at > GRACE_PERIOD
        /\ \E d \in ActiveDevices(p.user) : d.device_id = p.device

\* C16: when two credential checks race with the same superseded token after
\* its grace period, each of them ends with GracePeriodExpired and leaves the
\* archived token cleared: the one that commits while the other is still in
\* flight, and the one that commits after the other was answered.
C16_RacingPurgesAgree ==
    [][\A i \in 1..MaxPending :
          LET p == pending[i]
              raced == \/ \E j \in (1..MaxPending) \ {i} :
                             ReadExpired(j) /\ pending[j].token = p.token
                       \/ /\ resp.op = "authenticate"
                          /\ resp.token = p.token
                          /\ resp.message = "GracePeriodExpired"
          IN  (ReadExpired(i) /\ raced /\ pending'[i] = Idle) =>
                  /\ resp'.op = "authenticate"
                  /\ resp'.message = "GracePeriodExpired"
                  /\ users'[p.user].old_token = NoToken]_vars

PolledSince == Rotated(1) /\ resp.op = "authenticate"

\* The answers that tell a device to stop using its credential.
Rejections == {"InvalidCredential", "GracePeriodExpired"}

\* C19: under fair polling, once account 1 has rotated, the player of its
\* active device d1, which polls within the grace period and adopts the token
\* it is handed, is eventually answered "current", and from a poll answered
\* "current" on it is never answered InvalidCredential or GracePeriodExpired.
C19_EventuallyCurrent ==
    /\ Rotated(1) ~> (PolledSince /\ held.last = "current")
    /\ []((PolledSince /\ held.last = "current") => [](held.last \notin Rejections))

\* C19 witness: the player polled within the grace period of the rotation
\* request, and polls again after it: it holds the current token of its
\* account and is answered "current".
C19_Witness ==
    /\ PolledSince
    /\ now - rotations[1].at > GRACE_PERIOD
    /\ held.at = now
    /\ held.last = "current"
    /\ held.tok = users[1].token
    /\ resp.message = "current"

====
